---- MODULE Spec2Model ----
(***************************************************************************)
(* function-performer: the Performer class of src/src/index.ts.           *)
(*                                                                         *)
(* A Performer keeps four contexts (debounce, throttle, deduplication,    *)
(* limitation), each keyed by the identity of the target function, and    *)
(* uses the host's one-shot timers (setTimeout / clearTimeout).           *)
(*                                                                         *)
(* The host is modelled by a clock `now` and the set `timers` of pending  *)
(* timers.  A timer fires no earlier than its due time, timers fire in    *)
(* the order (due, creation), and the clock does not pass a due timer.    *)
(* Every operation and every timer callback runs to completion.  Where the *)
(* target function returns normally and makes no call to the Performer, an *)
(* operation or a callback is one action.  Where it may call the Performer *)
(* back or throw, `stack` holds the invocations in progress and a handler  *)
(* is the steps up to the invocation, the target function's own steps, and *)
(* the steps after its return; nothing else runs in between.  An           *)
(* invocation is recorded in `last`.                                       *)
(***************************************************************************)
EXTENDS Integers, Sequences, FiniteSets, TLC

(* ------------------------------ bounds -------------------------------- *)
\* number of operations (debounce/throttle/deduplicate/limit calls) in a run
MaxCalls == 3
\* last instant of the clock
MaxTime == 2
\* largest interval a configuration holds
MaxInterval == 1
\* largest finite max a limitation configuration holds
MaxMax == 2

(* --------------------------- values of the host ----------------------- *)
\* `null`: the value of a timeout field that holds no handle
Null == 0
\* `undefined`: an optional configuration key that is not given, Array.find's miss
Undefined == -1
\* the number Infinity
Infinity == -2

\* target functions, by identity
Funcs == {"f", "g"}

\* The rest parameter `...args` is a fresh array at every call: `ref` is the identity
\* of that array (the ordinal of the call that made it), `content` its structure.
\* Two argument lists with the same content are deep-equal.
Contents == {1, 2}
NoArgs == [content |-> 0, ref |-> 0]

Intervals == 0..MaxInterval
Maxes == 0..MaxMax

\* the config parameter of the four private methods: null, or an object
\* whose optional key (interval / max) may be missing
NullConfig == [null |-> TRUE, value |-> Undefined]
TimedFunctionConfigs == { [null |-> FALSE, value |-> v] : v \in Intervals \cup {Undefined} }
LimitedFunctionConfigs == { [null |-> FALSE, value |-> v] : v \in Maxes \cup {Undefined} }

VARIABLES
  debounceContext,      \* [calls: func -> [timeout], interval]
  throttleContext,      \* [calls: set of funcs, interval]
  deduplicationContext, \* [calls: func -> sequence of references to calls, interval]
  limitationContext,    \* [calls: func -> number, max]
  heap,                 \* the DeduplicatedFunctionCall objects: reference -> [args, count, timeout]
  timers,               \* pending timers of the host
  now,                  \* the host's clock
  nextId,               \* ordinal of the next operation; also the next handle / reference
  last,                 \* what the most recent step did (operation, timer armed or fired, invocation)
  dbRun,                \* history: per func, the current run of debounce calls
  thRun,                \* history: per func, the cooldown started by the last admitted throttle call
  ddRun,                \* history: per func and content, the current run of deduplicate calls
  ddOwed,               \* history: per func, the deduplicate calls made minus the counts passed to func
  lmHist,               \* history: per func, the limit calls made so far
  ctor,                 \* history: the configuration given to the constructor
  uses,                 \* the strategy this Performer's caller uses
  stack                 \* the invocations of target functions in progress, innermost last

contexts == <<debounceContext, throttleContext, deduplicationContext, limitationContext, heap>>
history == <<dbRun, thRun, ddRun, ddOwed, lmHist, ctor, uses>>
vars == <<contexts, timers, now, nextId, last, history, stack>>

(* ------------------------------ helpers ------------------------------- *)
\* a ?? b
Coalesce(a, b) == IF a = Undefined THEN b ELSE a

\* Map.prototype.set / delete / has
MapSet(m, k, v) == [x \in (DOMAIN m) \cup {k} |-> IF x = k THEN v ELSE m[x]]
MapDeleteNothing(m, k) == m
MapDeleteAll(m, k) == [x \in {} |-> m[x]]
MapDelete(m, k) == [x \in (DOMAIN m) \ {k} |-> m[x]]
MapHas(m, k) == k \in DOMAIN m
EmptyMap == [x \in {} |-> Null]

\* n < m on JavaScript numbers, m possibly Infinity (n is always finite here)
LessThanOrEqual(n, m) == IF m = Infinity THEN TRUE ELSE n <= m
NotEqual(n, m) == n # m
LessThan(n, m) == IF m = Infinity THEN TRUE ELSE n < m

IsSameReference(a, b) == a.ref = b.ref
\* fast-deep-equal on two argument lists
IsDeepEqual(a, b) == a.content = b.content

\* setTimeout(callback, delay): the pending timer.  `strategy`, `func`, `args`
\* and `call` are what the callback's closure captured.
TimerIgnoresDelay(id, strategy, func, args, delay, call) ==
  [id |-> id, strategy |-> strategy, func |-> func, args |-> args,
   due |-> now, call |-> call]
Timer(id, strategy, func, args, delay, call) ==
  [id |-> id, strategy |-> strategy, func |-> func, args |-> args,
   due |-> now + delay, call |-> call]

ClearTimeoutMissing(ts, id) == ts
\* clearTimeout(handle)
ClearTimeout(ts, id) == { t \in ts : t.id # id }

EffectiveIgnoresOverride(config, default) == default
\* config?.interval ?? context.interval   (and config?.max ?? context.max)
Effective(config, default) ==
  IF config.null THEN default ELSE Coalesce(config.value, default)

\* the argument list of the operation being called
Args(content) == [content |-> content, ref |-> nextId]

\* The record held by `last`: the operation or timer callback that just ran
\* (op, config, func, args), the timer it armed or that fired, whether func was
\* invoked and with what, and for a timer callback the number of calls of the run
\* it ended (0 when it ended none).
EventAlwaysInvoking(op, config, func, args, timer, invoked, invArgs, invCount, run) ==
  [op |-> op, config |-> config, func |-> func, args |-> args, timer |-> timer,
   invoked |-> TRUE, invArgs |-> invArgs, invCount |-> invCount, run |-> run]
Event(op, config, func, args, timer, invoked, invArgs, invCount, run) ==
  [op |-> op, config |-> config, func |-> func, args |-> args, timer |-> timer,
   invoked |-> invoked, invArgs |-> invArgs, invCount |-> invCount, run |-> run]
NoEvent(op) == Event(op, NullConfig, "f", NoArgs, Null, FALSE, NoArgs, 0, 0)

(* --------------------------- history variables ------------------------ *)
\* A run of debounce(func, ...) calls (of deduplicate(func, ...) calls with one
\* content): it starts with a call that finds no earlier call, or the timer armed
\* by the previous call already fired, and goes on while calls arrive before the
\* timer armed by the previous call has fired.
\* n: the calls of the run so far; timer: the timer armed by the most recent one.
\* args: of the most recent call; seen: a call of this kind was made at some time.
NoRun == [n |-> 0, timer |-> Null, args |-> NoArgs, seen |-> FALSE]
RunCall(r, id, args) == [n |-> r.n + 1, timer |-> id, args |-> args, seen |-> TRUE]
\* the timer armed by the most recent call fires: the run is over
RunFire(r, id) == IF r.timer = id THEN [NoRun EXCEPT !.seen = r.seen] ELSE r
\* the number of calls of the run that the firing of timer id ends
RunEnded(r, id) == IF r.timer = id THEN r.n ELSE 0

\* The cooldown of func: the timer armed by the last admitted throttle call, until
\* it fires (timer), and the instant of the last invocation of func by throttle (at).
NoCooldown == [timer |-> Null, at |-> Undefined]
Cooling(r) == r.timer # Null

\* the interval or max the call is meant to use: the override when the invoker was
\* configured with one, else the default given to the constructor
Expected(config, default) ==
  IF config.null \/ config.value = Undefined THEN default ELSE config.value

NoLimitHist == [attempts |-> 0, invoked |-> 0, maxes |-> {}, suppressed |-> {}]

(* ----------------------------- constructor ---------------------------- *)
\* new Performer(config): config?.<strategy>?.<key> is a number or undefined
Performer(config) ==
  /\ debounceContext = [calls |-> EmptyMap, interval |-> Coalesce(config.debounce, 0)]
  /\ throttleContext = [calls |-> {}, interval |-> Coalesce(config.throttle, 0)]
  /\ deduplicationContext = [calls |-> EmptyMap, interval |-> Coalesce(config.deduplication, 0)]
  /\ limitationContext = [calls |-> EmptyMap, max |-> Coalesce(config.limitation, Infinity)]
  /\ heap = EmptyMap
  /\ timers = {}
  /\ now = 0
  /\ nextId = 1
  /\ last = NoEvent("init")
  /\ dbRun = [f \in Funcs |-> NoRun]
  /\ thRun = [f \in Funcs |-> NoCooldown]
  /\ ddRun = [f \in Funcs |-> [c \in Contents |-> NoRun]]
  /\ ddOwed = [f \in Funcs |-> 0]
  /\ stack = <<>>
  /\ lmHist = [f \in Funcs |-> NoLimitHist]
  /\ ctor = [debounce |-> Coalesce(config.debounce, 0),
             throttle |-> Coalesce(config.throttle, 0),
             deduplication |-> Coalesce(config.deduplication, 0),
             limitation |-> Coalesce(config.limitation, Infinity),
             overridden |-> {}]

\* history: a configured call whose override differs from the construction default
Overridden(strategy, config, default) ==
  IF Expected(config, default) # default
    THEN [ctor EXCEPT !.overridden = @ \cup {strategy}]
    ELSE ctor

(* ------------------------------ debounce ------------------------------ *)
\* Performer._debounce(config, func, ...args)
Debounce(config, func, args) ==
  LET calls0 == debounceContext.calls
      calls1 == IF MapHas(calls0, func) THEN calls0
                ELSE MapSet(calls0, func, [timeout |-> Null])
      call == calls1[func]
      timers1 == IF call.timeout # Null THEN ClearTimeout(timers, call.timeout) ELSE timers
      delay == Effective(config, debounceContext.interval)
  IN /\ debounceContext' =
          [debounceContext EXCEPT !.calls = MapSet(calls1, func, [timeout |-> nextId])]
     /\ timers' = timers1 \cup {Timer(nextId, "debounce", func, args, delay, Null)}
     /\ nextId' = nextId + 1
     /\ last' = Event("debounce", config, func, args, nextId, FALSE, NoArgs, 0, 0)
     /\ dbRun' = [dbRun EXCEPT ![func] = RunCall(@, nextId, args)]
     /\ ctor' = Overridden("debounce", config, ctor.debounce)
     /\ UNCHANGED <<throttleContext, deduplicationContext, limitationContext, heap,
                    now, uses, thRun, ddRun, ddOwed, lmHist>>

(* ------------------------------ throttle ------------------------------ *)
ThrottleHasNever(calls, func) == FALSE
\* this._throttleContext.calls.has(func)
ThrottleHas(calls, func) == func \in calls

\* Performer._throttle(config, func, ...args)
Throttle(config, func, args) ==
  LET delay == Effective(config, throttleContext.interval) IN
  /\ IF ~ThrottleHas(throttleContext.calls, func)
       THEN /\ throttleContext' = [throttleContext EXCEPT !.calls = @ \cup {func}]
            /\ timers' = timers \cup {Timer(nextId, "throttle", func, NoArgs, delay, Null)}
            /\ last' = Event("throttle", config, func, args, nextId, TRUE, args, 0, 0)
            /\ thRun' = [thRun EXCEPT ![func] = [timer |-> nextId, at |-> now]]
       ELSE /\ last' = Event("throttle", config, func, args, Null, FALSE, NoArgs, 0, 0)
            /\ UNCHANGED <<throttleContext, timers, thRun>>
  /\ nextId' = nextId + 1
  /\ ctor' = Overridden("throttle", config, ctor.throttle)
  /\ UNCHANGED <<debounceContext, deduplicationContext, limitationContext, heap,
                 now, uses, dbRun, ddRun, ddOwed, lmHist>>

(* ----------------------------- deduplicate ---------------------------- *)
\* calls.find((item) => isDeepEqual(item.args, args)): the first match, or undefined
Find(calls, args) ==
  LET hits == { i \in 1..Len(calls) : IsDeepEqual(heap[calls[i]].args, args) }
  IN IF hits = {} THEN Undefined
     ELSE calls[CHOOSE i \in hits : \A j \in hits : i <= j]

\* the objects still referenced by a registered list or by a pending timer's closure
Reachable(h, lists, ts) ==
  LET live == UNION { { lists[f][i] : i \in 1..Len(lists[f]) } : f \in DOMAIN lists }
              \cup { t.call : t \in ts }
  IN [r \in (DOMAIN h) \cap live |-> h[r]]

CountKept(call) == call
\* call.count++
CountAgain(call) == [call EXCEPT !.count = @ + 1]

\* Performer._deduplicate(config, func, ...args)
Deduplicate(config, func, args) ==
  LET lists0 == deduplicationContext.calls
      lists1 == IF MapHas(lists0, func) THEN lists0 ELSE MapSet(lists0, func, <<>>)
      calls == lists1[func]
      found == Find(calls, args)
      shouldDeduplicate == found # Undefined
      call == IF shouldDeduplicate THEN found ELSE nextId
      heap1 == IF shouldDeduplicate
                 THEN [heap EXCEPT ![call] = CountAgain(@)]
                 ELSE MapSet(heap, call, [args |-> args, count |-> 1, timeout |-> Null])
      lists2 == IF shouldDeduplicate THEN lists1
                ELSE MapSet(lists1, func, Append(calls, call))
      timers1 == IF heap1[call].timeout # Null /\ shouldDeduplicate
                   THEN ClearTimeout(timers, heap1[call].timeout) ELSE timers
      delay == Effective(config, deduplicationContext.interval)
  IN /\ deduplicationContext' = [deduplicationContext EXCEPT !.calls = lists2]
     /\ heap' = [heap1 EXCEPT ![call].timeout = nextId]
     /\ timers' = timers1 \cup {Timer(nextId, "deduplicate", func, args, delay, call)}
     /\ nextId' = nextId + 1
     /\ last' = Event("deduplicate", config, func, args, nextId, FALSE, NoArgs, 0, 0)
     /\ ddRun' = [ddRun EXCEPT ![func][args.content] = RunCall(@, nextId, args)]
     /\ ddOwed' = [ddOwed EXCEPT ![func] = @ + 1]
     /\ ctor' = Overridden("deduplicate", config, ctor.deduplication)
     /\ UNCHANGED <<debounceContext, throttleContext, limitationContext,
                    now, uses, dbRun, thRun, lmHist>>

(* -------------------------------- limit ------------------------------- *)
LimitSetWithoutIncrement(calls, func, numberOfCalls) == MapSet(calls, func, numberOfCalls)
\* this._limitationContext.calls.set(func, numberOfCalls + 1)
LimitSet(calls, func, numberOfCalls) == MapSet(calls, func, numberOfCalls + 1)

\* Performer._limit(config, func, ...args)
Limit(config, func, args) ==
  LET numberOfCalls == IF MapHas(limitationContext.calls, func)
                         THEN limitationContext.calls[func] ELSE 0
      maxNumberOfCalls == Effective(config, limitationContext.max)
      admitted == LessThan(numberOfCalls, maxNumberOfCalls)
  IN /\ limitationContext' =
          [limitationContext EXCEPT !.calls = LimitSet(@, func, numberOfCalls)]
     /\ last' = IF admitted
                  THEN Event("limit", config, func, args, Null, TRUE, args, 0, 0)
                  ELSE Event("limit", config, func, args, Null, FALSE, NoArgs, 0, 0)
     /\ lmHist' = [lmHist EXCEPT ![func] =
                     [attempts |-> @.attempts + 1,
                      invoked |-> @.invoked + (IF admitted THEN 1 ELSE 0),
                      maxes |-> @.maxes \cup {Expected(config, ctor.limitation)},
                      suppressed |-> IF admitted THEN @.suppressed
                                     ELSE @.suppressed \cup {Expected(config, ctor.limitation)}]]
     /\ nextId' = nextId + 1
     /\ ctor' = Overridden("limit", config, ctor.limitation)
     /\ UNCHANGED <<debounceContext, throttleContext, deduplicationContext, heap,
                    timers, now, uses, dbRun, thRun, ddRun, ddOwed>>

(* --------------------------- timer callbacks -------------------------- *)
\* The host runs the callback of timer t: t is due, and no pending timer is
\* ahead of it in the order (due, creation).
Due(t) ==
  /\ t \in timers
  /\ t.due <= now
  /\ \A u \in timers : u.due > t.due \/ (u.due = t.due /\ u.id >= t.id)

\* () => { this._debounceContext.calls.delete(func); func(...args); }
DebounceTimeout(t) ==
  /\ Due(t) /\ t.strategy = "debounce"
  /\ timers' = timers \ {t}
  /\ debounceContext' = [debounceContext EXCEPT !.calls = MapDelete(@, t.func)]
  /\ last' = Event("debounceTimeout", NullConfig, t.func, NoArgs, t.id, TRUE, t.args, 0,
                 RunEnded(dbRun[t.func], t.id))
  /\ dbRun' = [dbRun EXCEPT ![t.func] = RunFire(@, t.id)]
  /\ UNCHANGED <<throttleContext, deduplicationContext, limitationContext, heap,
                 now, nextId, thRun, ddRun, ddOwed, lmHist, ctor, uses>>

\* () => { this._throttleContext.calls.delete(func); }
ThrottleTimeout(t) ==
  /\ Due(t) /\ t.strategy = "throttle"
  /\ timers' = timers \ {t}
  /\ throttleContext' = [throttleContext EXCEPT !.calls = @ \ {t.func}]
  /\ last' = Event("throttleTimeout", NullConfig, t.func, NoArgs, t.id, FALSE, NoArgs, 0, 0)
  /\ thRun' = [thRun EXCEPT ![t.func] = IF @.timer = t.id THEN [@ EXCEPT !.timer = Null] ELSE @]
  /\ UNCHANGED <<debounceContext, deduplicationContext, limitationContext, heap,
                 now, nextId, dbRun, ddRun, ddOwed, lmHist, ctor, uses>>

GroupArgs(t) == heap[t.call].args
\* `args` in the callback: the rest parameter of the _deduplicate call that armed t
ClosureArgs(t) == t.args

\* () => { this._deduplicationContext.calls.delete(func); func(call.count, ...args); }
DeduplicateTimeout(t) ==
  /\ Due(t) /\ t.strategy = "deduplicate"
  /\ timers' = timers \ {t}
  /\ deduplicationContext' = [deduplicationContext EXCEPT !.calls = MapDelete(@, t.func)]
  /\ heap' = Reachable(heap, deduplicationContext'.calls, timers')
  /\ last' = Event("deduplicateTimeout", NullConfig, t.func, NoArgs, t.id, TRUE,
                 ClosureArgs(t), heap[t.call].count,
                 RunEnded(ddRun[t.func][t.args.content], t.id))
  /\ ddRun' = [ddRun EXCEPT ![t.func][t.args.content] =
                 RunFire(@, t.id)]
  /\ ddOwed' = [ddOwed EXCEPT ![t.func] = @ - heap[t.call].count]
  /\ UNCHANGED <<debounceContext, throttleContext, limitationContext,
                 now, nextId, dbRun, thRun, lmHist, ctor, uses>>

\* Time passes; the host lets no due timer wait past its instant.  The clock is
\* read through the pending timers only (setTimeout takes a delay), so an instant
\* at which no timer is pending is not told apart from the next one.
Tick ==
  /\ now < MaxTime
  /\ timers # {}
  /\ \A t \in timers : t.due > now
  /\ now' = now + 1
  /\ last' = NoEvent("tick")
  /\ stack = <<>>
  /\ UNCHANGED <<contexts, timers, nextId, history, stack>>

(* ------------------------- the public properties ---------------------- *)
\* _deconfigure(func): (...args) => func(null, ...args)
\* _configure(func): (config) => (...args) => func(config, ...args)
DebouncePlain ==
  \E func \in Funcs, content \in Contents :
    /\ nextId <= MaxCalls /\ uses = "debounce" /\ stack = <<>>
    /\ Debounce(NullConfig, func, Args(content))
    /\ UNCHANGED stack

DebounceConfigured ==
  \E config \in TimedFunctionConfigs, func \in Funcs, content \in Contents :
    /\ nextId <= MaxCalls /\ uses = "debounce" /\ stack = <<>>
    /\ Debounce(config, func, Args(content))
    /\ UNCHANGED stack

ThrottlePlain ==
  \E func \in Funcs, content \in Contents :
    /\ nextId <= MaxCalls /\ uses = "throttle" /\ stack = <<>>
    /\ Throttle(NullConfig, func, Args(content))
    /\ UNCHANGED stack

ThrottleConfigured ==
  \E config \in TimedFunctionConfigs, func \in Funcs, content \in Contents :
    /\ nextId <= MaxCalls /\ uses = "throttle" /\ stack = <<>>
    /\ Throttle(config, func, Args(content))
    /\ UNCHANGED stack

DeduplicatePlain ==
  \E func \in Funcs, content \in Contents :
    /\ nextId <= MaxCalls /\ uses = "deduplicate" /\ stack = <<>>
    /\ Deduplicate(NullConfig, func, Args(content))
    /\ UNCHANGED stack

DeduplicateConfigured ==
  \E config \in TimedFunctionConfigs, func \in Funcs, content \in Contents :
    /\ nextId <= MaxCalls /\ uses = "deduplicate" /\ stack = <<>>
    /\ Deduplicate(config, func, Args(content))
    /\ UNCHANGED stack

LimitPlain ==
  \E func \in Funcs, content \in Contents :
    /\ nextId <= MaxCalls /\ uses = "limit" /\ stack = <<>>
    /\ Limit(NullConfig, func, Args(content))
    /\ UNCHANGED stack

LimitConfigured ==
  \E config \in LimitedFunctionConfigs, func \in Funcs, content \in Contents :
    /\ nextId <= MaxCalls /\ uses = "limit" /\ stack = <<>>
    /\ Limit(config, func, Args(content))
    /\ UNCHANGED stack

\* the host runs a due timer's callback; the target function returns at once
FireDebounce == \E t \in timers : stack = <<>> /\ DebounceTimeout(t) /\ UNCHANGED stack
FireThrottle == \E t \in timers : stack = <<>> /\ ThrottleTimeout(t) /\ UNCHANGED stack
FireDeduplicate == \E t \in timers : stack = <<>> /\ DeduplicateTimeout(t) /\ UNCHANGED stack


(* The four contexts share nothing.  A behaviour is a Performer whose caller uses
   one of the four strategies, plain and configured. *)
NoConfig == [debounce |-> Undefined, throttle |-> Undefined,
             deduplication |-> Undefined, limitation |-> Undefined]

InitDebounce ==
  /\ uses = "debounce"
  /\ \E i \in Intervals \cup {Undefined} : Performer([NoConfig EXCEPT !.debounce = i])
InitThrottle ==
  /\ uses = "throttle"
  /\ \E i \in Intervals \cup {Undefined} : Performer([NoConfig EXCEPT !.throttle = i])
InitDeduplicate ==
  /\ uses = "deduplicate"
  /\ \E i \in Intervals \cup {Undefined} : Performer([NoConfig EXCEPT !.deduplication = i])
InitLimit ==
  /\ uses = "limit"
  /\ \E m \in Maxes \cup {Undefined} : Performer([NoConfig EXCEPT !.limitation = m])

Init == InitDebounce \/ InitThrottle \/ InitDeduplicate \/ InitLimit

Next ==
  \/ DebouncePlain \/ DebounceConfigured \/ FireDebounce
  \/ ThrottlePlain \/ ThrottleConfigured \/ FireThrottle
  \/ DeduplicatePlain \/ DeduplicateConfigured \/ FireDeduplicate
  \/ LimitPlain \/ LimitConfigured
  \/ Tick

\* any of the four strategies
Spec == Init /\ [][Next]_vars

NextDebounce == DebouncePlain \/ DebounceConfigured \/ FireDebounce \/ Tick
SpecDebounce == InitDebounce /\ [][NextDebounce]_vars

NextThrottle == ThrottlePlain \/ ThrottleConfigured \/ FireThrottle \/ Tick
SpecThrottle == InitThrottle /\ [][NextThrottle]_vars

NextDeduplicate == DeduplicatePlain \/ DeduplicateConfigured \/ FireDeduplicate \/ Tick
SpecDeduplicate == InitDeduplicate /\ [][NextDeduplicate]_vars

\* _limit arms no timer: the clock plays no part
NextLimit == LimitPlain \/ LimitConfigured
SpecLimit == InitLimit /\ [][NextLimit]_vars

(* ------------- target functions that call back or throw ---------------- *)
\* An invocation of a target function in progress: the handler that made it (by),
\* the function, the config the handler was called with, and for a timer callback
\* the timer that fired and the group its closure captured.
Frame(by, func, config, timer, call) ==
  [by |-> by, func |-> func, config |-> config, timer |-> timer, call |-> call]
Top == stack[Len(stack)]
Pop == SubSeq(stack, 1, Len(stack) - 1)

\* the callback of a due debounce / deduplication timer, up to and including
\* func(...args): the entry is deleted and the target function starts to run
EnterDebounceTimeout ==
  \E t \in timers :
    /\ stack = <<>>
    /\ DebounceTimeout(t)
    /\ stack' = <<Frame("debounceTimeout", t.func, NullConfig, t.id, Null)>>

EnterDeduplicateTimeout ==
  \E t \in timers :
    /\ stack = <<>>
    /\ DeduplicateTimeout(t)
    /\ stack' = <<Frame("deduplicateTimeout", t.func, NullConfig, t.id, t.call)>>

\* the running target function calls debounce / deduplicate for itself
DebounceInside ==
  \E content \in Contents :
    /\ nextId <= MaxCalls /\ stack # <<>> /\ Top.by = "debounceTimeout"
    /\ Debounce(NullConfig, Top.func, Args(content))
    /\ UNCHANGED stack

DeduplicateInside ==
  \E content \in Contents :
    /\ nextId <= MaxCalls /\ stack # <<>> /\ Top.by = "deduplicateTimeout"
    /\ Deduplicate(NullConfig, Top.func, Args(content))
    /\ UNCHANGED stack

\* Performer._limit with a target function that may call back: the counter is
\* stored, and when the call is admitted the target function starts to run
LimitEnters(config, func, args) ==
  /\ Limit(config, func, args)
  /\ stack' = IF last'.invoked
                THEN Append(stack, Frame("limit", func, config, Null, Null))
                ELSE stack

LimitEnterPlain ==
  \E func \in Funcs, content \in Contents :
    /\ nextId <= MaxCalls /\ uses = "limit" /\ stack = <<>>
    /\ LimitEnters(NullConfig, func, Args(content))

LimitEnterConfigured ==
  \E config \in LimitedFunctionConfigs, func \in Funcs, content \in Contents :
    /\ nextId <= MaxCalls /\ uses = "limit" /\ stack = <<>>
    /\ LimitEnters(config, func, Args(content))

\* the running target function calls limit for itself
LimitInside ==
  \E content \in Contents :
    /\ nextId <= MaxCalls /\ stack # <<>> /\ Top.by = "limit"
    /\ LimitEnters(NullConfig, Top.func, Args(content))

\* The target function invoked by a timer callback or by _limit returns, or throws:
\* nothing follows func(...) in these handlers, so the handler is over either way.
Leave(op) ==
  /\ stack # <<>> /\ Top.by \in {"debounceTimeout", "deduplicateTimeout", "limit"}
  /\ stack' = Pop
  /\ last' = Event(op, Top.config, Top.func, NoArgs, Top.timer, FALSE, NoArgs, 0, 0)
  /\ UNCHANGED <<contexts, timers, now, nextId, history>>

Return == Leave("return")
Throw == Leave("throw")

\* Performer._throttle up to and including func(...args): nothing is added to the
\* set and no timer is armed before the target function has returned
ThrottleInvoke(config, func, args) ==
  /\ IF ~ThrottleHas(throttleContext.calls, func)
       THEN /\ stack' = Append(stack, Frame("throttle", func, config, Null, Null))
            /\ last' = Event("throttle", config, func, args, Null, TRUE, args, 0, 0)
            /\ thRun' = [thRun EXCEPT ![func].at = now]
       ELSE /\ last' = Event("throttle", config, func, args, Null, FALSE, NoArgs, 0, 0)
            /\ UNCHANGED <<thRun, stack>>
  /\ nextId' = nextId + 1
  /\ ctor' = Overridden("throttle", config, ctor.throttle)
  /\ UNCHANGED <<contexts, timers, now, uses, dbRun, ddRun, ddOwed, lmHist>>

\* the rest of Performer._throttle, after the target function has returned:
\* calls.add(func); setTimeout(() => calls.delete(func), interval)
ThrottleResume ==
  /\ stack # <<>> /\ Top.by = "throttle"
  /\ throttleContext' = [throttleContext EXCEPT !.calls = @ \cup {Top.func}]
  /\ timers' = timers \cup {Timer(nextId, "throttle", Top.func, NoArgs,
                                  Effective(Top.config, throttleContext.interval), Null)}
  /\ thRun' = [thRun EXCEPT ![Top.func].timer = nextId]
  /\ nextId' = nextId + 1
  /\ stack' = Pop
  /\ last' = Event("return", Top.config, Top.func, NoArgs, nextId, FALSE, NoArgs, 0, 0)
  /\ UNCHANGED <<debounceContext, deduplicationContext, limitationContext, heap,
                 now, uses, dbRun, ddRun, ddOwed, lmHist, ctor>>

\* the target function throws: the exception leaves _throttle before calls.add(func)
ThrottleAbort ==
  /\ stack # <<>> /\ Top.by = "throttle"
  /\ stack' = Pop
  /\ last' = Event("throw", Top.config, Top.func, NoArgs, Null, FALSE, NoArgs, 0, 0)
  /\ UNCHANGED <<contexts, timers, now, nextId, history>>

ThrottleEnterPlain ==
  \E func \in Funcs, content \in Contents :
    /\ nextId <= MaxCalls /\ uses = "throttle" /\ stack = <<>>
    /\ ThrottleInvoke(NullConfig, func, Args(content))

ThrottleEnterConfigured ==
  \E config \in TimedFunctionConfigs, func \in Funcs, content \in Contents :
    /\ nextId <= MaxCalls /\ uses = "throttle" /\ stack = <<>>
    /\ ThrottleInvoke(config, func, Args(content))

\* the running target function calls throttle for itself
ThrottleInside ==
  \E content \in Contents :
    /\ nextId <= MaxCalls /\ stack # <<>> /\ Top.by = "throttle"
    /\ ThrottleInvoke(NullConfig, Top.func, Args(content))

\* debounce and deduplicate with target functions that call back or throw; the
\* callers use the plain invokers
InitTimed == InitDebounce \/ InitDeduplicate
NextTimedReentrant ==
  \/ DebouncePlain \/ EnterDebounceTimeout \/ DebounceInside
  \/ DeduplicatePlain \/ EnterDeduplicateTimeout \/ DeduplicateInside
  \/ Return \/ Throw \/ Tick
SpecTimedReentrant == InitTimed /\ [][NextTimedReentrant]_vars

\* throttle with target functions that call back or throw
NextThrottleReentrant ==
  \/ ThrottleEnterPlain \/ ThrottleEnterConfigured \/ ThrottleInside
  \/ ThrottleResume \/ ThrottleAbort \/ FireThrottle \/ Tick
SpecThrottleReentrant == InitThrottle /\ [][NextThrottleReentrant]_vars

\* limit with target functions that call back or throw
NextLimitReentrant ==
  \/ LimitEnterPlain \/ LimitEnterConfigured \/ LimitInside
  \/ Return \/ Throw
SpecLimitReentrant == InitLimit /\ [][NextLimitReentrant]_vars

\* time goes on past MaxTime for as long as a timer is pending
Elapse ==
  /\ now >= MaxTime
  /\ timers # {}
  /\ \A t \in timers : t.due > now
  /\ now' = now + 1
  /\ last' = NoEvent("tick")
  /\ stack = <<>>
  /\ UNCHANGED <<contexts, timers, nextId, history, stack>>

\* The three strategies that arm timers, called through the plain invokers, under
\* a fair host: time passes, and the callback of a due timer is run.
InitTimers == InitDebounce \/ InitThrottle \/ InitDeduplicate
NextTimers ==
  \/ DebouncePlain \/ FireDebounce
  \/ ThrottlePlain \/ FireThrottle
  \/ DeduplicatePlain \/ FireDeduplicate
  \/ Tick \/ Elapse
SpecTimersFair ==
  /\ InitTimers /\ [][NextTimers]_vars
  /\ WF_vars(FireDebounce) /\ WF_vars(FireThrottle) /\ WF_vars(FireDeduplicate)
  /\ WF_vars(Tick) /\ WF_vars(Elapse)

(* ============================== claims ================================ *)

\* the pending timers of one strategy for one function
Pending(strategy, func) == { t \in timers : t.strategy = strategy /\ t.func = func }

(* ------------------------------- C1 ----------------------------------- *)
\* While a run of debounce(f, ...) calls is open, the only pending debounce timer
\* for f is the one armed by the most recent call, holding that call's arguments.
DebouncePendingIsLast ==
  \A f \in Funcs :
    Pending("debounce", f) =
      IF dbRun[f].timer = Null THEN {}
      ELSE { t \in timers : t.id = dbRun[f].timer /\ t.strategy = "debounce"
                            /\ t.func = f /\ t.args = dbRun[f].args }

\* A debounce call never invokes f itself; a debounce timer that fires is the one
\* armed by the last call of the run and invokes f with that call's arguments.
DebounceInvokesLast ==
  /\ last'.op = "debounce" => ~last'.invoked
  /\ last'.op = "debounceTimeout" =>
       /\ last'.invoked
       /\ dbRun[last'.func].timer = last'.timer
       /\ dbRun[last'.func].args = last'.invArgs

\* C1: Debounce coalescing.  In a run of debounce(f, ...) calls, each arriving
\* before the timer armed by the previous call has fired, f is invoked exactly
\* once, by the timer armed by the last call and with that call's arguments; the
\* arguments of no earlier call are passed to f.
C1_DebounceCoalescing == []DebouncePendingIsLast /\ [][DebounceInvokesLast]_vars

\* a run of at least two debounce calls has just been delivered
C1_Witness == last.op = "debounceTimeout" /\ last.invoked /\ last.run >= 2

(* ------------------------------- C2 ----------------------------------- *)
\* A throttle call for f outside a cooldown invokes f with its arguments in the
\* call and arms the cooldown timer; inside a cooldown it changes nothing; the
\* cooldown timer's callback invokes nothing.
ThrottleAdmits ==
  /\ last'.op = "throttle" =>
       IF Cooling(thRun[last'.func])
         THEN /\ ~last'.invoked
              /\ timers' = timers
              /\ throttleContext' = throttleContext
         ELSE /\ last'.invoked /\ last'.invArgs = last'.args
              /\ \E t \in timers' \ timers :
                   /\ t.id = last'.timer /\ t.func = last'.func
                   /\ t.strategy = "throttle"
              /\ Cooling(thRun'[last'.func])
  /\ last'.op = "throttleTimeout" => ~last'.invoked

SingleArgumentList(f) == Cardinality({ c \in Contents : ddRun[f][c].seen }) <= 1

\* the pending deduplication timers for f whose captured arguments have content c
PendingFor(f, c) == { t \in Pending("deduplicate", f) : t.args.content = c }

\* While a run of deduplicate(f, a) calls is open, exactly one timer is pending
\* for it: the one armed by the most recent call, and the count its group holds is
\* the number of calls of the run.  With no open run nothing is pending.
DeduplicatePendingIsLast(f, c) ==
  PendingFor(f, c) =
    IF ddRun[f][c].timer = Null THEN {}
    ELSE { t \in timers : /\ t.id = ddRun[f][c].timer /\ t.func = f
                          /\ t.strategy = "deduplicate"
                          /\ t.args = ddRun[f][c].args
                          /\ heap[t.call].count = ddRun[f][c].n }

\* the deduplication timer that just fired was armed by the last call of the run
\* of its argument list, and f got the number of calls of that run
DeduplicateInvokesRun ==
  LET r == ddRun[last'.func][last'.invArgs.content] IN
  /\ last'.invoked
  /\ r.timer = last'.timer
  /\ r.n = last'.invCount

DeduplicateSingle ==
  /\ last'.op = "deduplicate" => ~last'.invoked
  /\ (last'.op = "deduplicateTimeout" /\ SingleArgumentList(last'.func))
       => DeduplicateInvokesRun

\* C3: Deduplicate merge and count, single argument list.  When only calls
\* deep-equal to a are made for f, a run of deduplicate(f, a) calls, each arriving
\* before the timer armed by the previous one has fired, invokes f exactly once,
\* when the last armed timer fires, as f(count, ...a) with count the number of
\* calls of the run; a call after that invocation starts a new run with count 1.
C3_DeduplicateMergeSingle ==
  /\ [](\A f \in Funcs : SingleArgumentList(f) =>
          \A c \in Contents : DeduplicatePendingIsLast(f, c))
  /\ [][DeduplicateSingle]_vars

\* a run of at least two deep-equal calls has just been delivered as one
\* invocation, for a function that was only ever called with that content
C3_Witness ==
  /\ last.op = "deduplicateTimeout" /\ last.invoked
  /\ last.run >= 2 /\ last.invCount = last.run
  /\ SingleArgumentList(last.func)

(* ------------------------------- C4 ----------------------------------- *)
\* C4: Deduplicate independence of argument lists.  Whatever other argument
\* lists are passed to deduplicate for f and whenever their timers fire, each run
\* of deduplicate(f, a) calls yields exactly one invocation f(count, ...a), made
\* by the timer of the run's last call, with count the number of calls of the run.
C4_DeduplicateIndependence ==
  [][last'.op = "deduplicateTimeout" => DeduplicateInvokesRun]_vars

(* ------------------------------- C7 ----------------------------------- *)
\* C7: Deduplicate group uniqueness.  For each f and each argument list (up to
\* deep equality) at most one group with a pending timer exists: no two pending
\* timers will both invoke f with deep-equal arguments.
C7_DeduplicateGroupUniqueness ==
  \A f \in Funcs : \A t, u \in Pending("deduplicate", f) :
    IsDeepEqual(t.args, u.args) => (t.id = u.id /\ t.call = u.call)

(* ------------------------------- C8 ----------------------------------- *)
\* the group list registered for f (empty when f has no entry)
Registered(calls, f) == IF MapHas(calls, f) THEN calls[f] ELSE <<>>
Elements(seq) == { seq[i] : i \in 1..Len(seq) }
Without(seq, g) == SelectSeq(seq, LAMBDA x : x # g)

\* the firing of a group's timer removes that group and nothing else
EvictsOwnGroupOnly ==
  last'.op = "deduplicateTimeout" =>
    LET g == (CHOOSE t \in timers : t.id = last'.timer).call IN
    \A f \in Funcs :
      /\ Registered(deduplicationContext'.calls, f) =
           IF f = last'.func THEN Without(Registered(deduplicationContext.calls, f), g)
           ELSE Registered(deduplicationContext.calls, f)
      /\ \A h \in Elements(Registered(deduplicationContext'.calls, f)) : heap'[h] = heap[h]

\* a registered group leaves the registry only when its own timer fires
LeavesByOwnTimerOnly ==
  \A f \in Funcs : \A g \in Elements(Registered(deduplicationContext.calls, f)) :
    g \notin Elements(Registered(deduplicationContext'.calls, f)) =>
      (last'.op = "deduplicateTimeout" /\ last'.timer = heap[g].timeout)

\* C8: Deduplicate eviction frame.  When the timer of one group fires, only that
\* group is removed from its function's group list; every other group stays
\* registered and unchanged, and a group leaves the registry only through the
\* firing of its own timer.
C8_DeduplicateEvictionFrame == [][EvictsOwnGroupOnly /\ LeavesByOwnTimerOnly]_vars

(* ------------------------------- C5 ----------------------------------- *)
\* n is strictly below max, max possibly unbounded
Below(n, max) == max = Infinity \/ n < max
Min(a, b) == IF a <= b THEN a ELSE b

\* a limit call invokes f, with its arguments, exactly when the earlier attempts
\* for f are fewer than the max the call is meant to use
LimitAdmits ==
  last'.op = "limit" =>
    /\ last'.invoked <=>
         Below(lmHist[last'.func].attempts, Expected(last'.config, ctor.limitation))
    /\ last'.invoked => last'.invArgs = last'.args

\* with one max m used by every call for f, f has been invoked min(calls, m) times
LimitFixedMax ==
  \A f \in Funcs : \A m \in Maxes \cup {Infinity} :
    lmHist[f].maxes = {m} =>
      lmHist[f].invoked =
        IF m = Infinity THEN lmHist[f].attempts ELSE Min(lmHist[f].attempts, m)

\* C5: Limit admission.  A limit(f, ...) call invokes f synchronously if and
\* only if the number of earlier limit call attempts for f is strictly below that
\* call's effective max; with a single fixed max m exactly the first m calls are
\* admitted (none when m = 0, all when no max is configured).
C5_LimitAdmission == []LimitFixedMax /\ [][LimitAdmits]_vars

\* with one finite max m >= 1 for f, the first m calls were admitted and the
\* call just made was suppressed
C5_Witness ==
  /\ last.op = "limit" /\ ~last.invoked
  /\ \E m \in Maxes : /\ m >= 1 /\ lmHist[last.func].maxes = {m}
                      /\ lmHist[last.func].invoked = m
                      /\ lmHist[last.func].attempts = m + 1

(* ------------------------------- C6 ----------------------------------- *)
\* C6 as stated: Limit exhaustion is permanent.  Once a limit call for f has been
\* suppressed, no later limit call for f, through the plain invoker or any
\* configured invoker, invokes f.
C6_LimitExhaustionPermanent ==
  [][(last'.op = "limit" /\ lmHist[last'.func].suppressed # {}) => ~last'.invoked]_vars

\* C6 as amended: once a limit call for f with effective max m has been
\* suppressed, no later limit call for f whose effective max is at most m invokes
\* f (a later call configured with a larger max may).
C6_LimitExhaustionUpToMax ==
  [][(/\ last'.op = "limit"
      /\ \E m \in lmHist[last'.func].suppressed :
           /\ Expected(last'.config, ctor.limitation) # Infinity
           /\ Expected(last'.config, ctor.limitation) <= m)
     => ~last'.invoked]_vars

\* f was invoked, and then two calls with the same effective max were suppressed
C6_Witness ==
  /\ last.op = "limit" /\ ~last.invoked
  /\ lmHist[last.func].invoked >= 1
  /\ lmHist[last.func].attempts - lmHist[last.func].invoked >= 2
  /\ lmHist[last.func].suppressed = {Expected(last.config, ctor.limitation)}

(* ------------------------------- C9 ----------------------------------- *)
\* this._limitationContext.calls.get(func) ?? 0
LimitCounter(calls, f) == IF MapHas(calls, f) THEN calls[f] ELSE 0

LimitCounterCounts ==
  \A f \in Funcs :
    /\ LimitCounter(limitationContext.calls, f) = lmHist[f].attempts
    /\ lmHist[f].attempts > 0 => MapHas(limitationContext.calls, f)

LimitCounterKept ==
  \A f \in Funcs :
    /\ LimitCounter(limitationContext'.calls, f) >= LimitCounter(limitationContext.calls, f)
    /\ MapHas(limitationContext.calls, f) => MapHas(limitationContext'.calls, f)

\* C9: Limit counter.  The limit counter of f equals the number of limit(f, ...)
\* calls made so far through the plain and the configured invokers, admitted or
\* not; it never decreases and no operation resets or removes it.
C9_LimitCounter == []LimitCounterCounts /\ [][LimitCounterKept]_vars

\* the counter of f counts a suppressed call too
C9_Witness ==
  \E f \in Funcs :
    /\ lmHist[f].attempts >= 2 /\ lmHist[f].invoked < lmHist[f].attempts
    /\ LimitCounter(limitationContext.calls, f) = lmHist[f].attempts

(* ------------------------------- C10 ---------------------------------- *)
\* the defaults of the four contexts are those given to the constructor
DefaultsKept ==
  /\ debounceContext.interval = ctor.debounce
  /\ throttleContext.interval = ctor.throttle
  /\ deduplicationContext.interval = ctor.deduplication
  /\ limitationContext.max = ctor.limitation

DefaultOf(op) ==
  CASE op = "debounce" -> ctor.debounce
    [] op = "throttle" -> ctor.throttle
    [] op = "deduplicate" -> ctor.deduplication
    [] op = "limit" -> ctor.limitation

\* the timer a call arms is due after the override of the call's invoker, or after
\* the constructor's default for a plain call; a limit call is admitted against
\* the override, or against the constructor's default for a plain call
UsesOverrideOrDefault ==
  /\ (last'.op \in {"debounce", "throttle", "deduplicate"} /\ last'.timer # Null) =>
       \E t \in timers' :
         /\ t.id = last'.timer
         /\ t.due = now + Expected(last'.config, DefaultOf(last'.op))
  /\ last'.op = "limit" =>
       (last'.invoked <=>
          Below(LimitCounter(limitationContext.calls, last'.func),
                Expected(last'.config, DefaultOf("limit"))))

\* C10: Configuration isolation.  A call through X.configure(override) uses the
\* override's interval/max for that call only; after any sequence of configured
\* calls the construction-time default of every strategy is unchanged, and every
\* later plain call uses that default.
C10_ConfigurationIsolation == []DefaultsKept /\ [][UsesOverrideOrDefault]_vars

\* after a configured call whose override differed from the default, a plain call
\* has just armed a timer due after the default interval
C10_Witness ==
  /\ ctor.overridden # {}
  /\ last.config.null
  /\ last.op \in {"debounce", "throttle", "deduplicate"} /\ last.timer # Null
  /\ \E t \in timers : t.id = last.timer /\ t.due = now + DefaultOf(last.op)

(* ------------------------------- C11 ---------------------------------- *)
\* what a Performer and the host hold for the function g: its debounce entry,
\* its throttle membership, its group list and the groups on it or held by its
\* pending timers, its limit counter and its pending timers with what they captured
FuncView(dc, tc, ddc, lc, h, ts, g) ==
  LET mine == { t \in ts : t.func = g }
      groups == Elements(Registered(ddc.calls, g)) \cup
                { t.call : t \in { u \in mine : u.strategy = "deduplicate" } }
  IN [debounce |-> IF MapHas(dc.calls, g) THEN dc.calls[g].timeout ELSE Undefined,
      throttle |-> g \in tc.calls,
      listed |-> MapHas(ddc.calls, g),
      list |-> Registered(ddc.calls, g),
      groups |-> [r \in groups |-> h[r]],
      counter |-> IF MapHas(lc.calls, g) THEN lc.calls[g] ELSE Undefined,
      timers |-> mine]

\* a step that is not an operation on g (a call for another function, the firing
\* of another function's timer, the passing of time) leaves all of that unchanged,
\* and invokes only the function it is an operation on
LeavesOthersAlone ==
  \A g \in Funcs :
    (last'.op = "tick" \/ last'.func # g) =>
      /\ FuncView(debounceContext', throttleContext', deduplicationContext',
                  limitationContext', heap', timers', g)
           = FuncView(debounceContext, throttleContext, deduplicationContext,
                      limitationContext, heap, timers, g)
      /\ dbRun'[g] = dbRun[g] /\ thRun'[g] = thRun[g]
      /\ ddRun'[g] = ddRun[g] /\ lmHist'[g] = lmHist[g]

\* C11: Callable independence.  For two distinct callables f and g, no operation
\* on f (a debounce/throttle/deduplicate/limit call or the firing of a timer that
\* belongs to f) changes g's registry entry, pending timer, captured arguments or
\* counter, so g is invoked as in the run without the operations on f.
C11_CallableIndependence == [][LeavesOthersAlone]_vars

\* a timer of one function has just fired, removing that function's entry, while
\* another function has an entry and a pending timer of the same strategy
C11_Witness ==
  /\ last.op \in {"debounceTimeout", "deduplicateTimeout"}
  /\ \E g \in Funcs \ {last.func} :
       /\ MapHas(debounceContext.calls, g) \/ MapHas(deduplicationContext.calls, g)
       /\ \E t \in timers : t.func = g

(* ------------------------------- C12 ---------------------------------- *)
\* While the target function invoked by a debounce / deduplication timer callback
\* runs, the entry / group whose timer fired is not in the registry.
FiredEntryAbsent ==
  \A i \in 1..Len(stack) :
    LET fr == stack[i] IN
    /\ fr.by = "debounceTimeout" =>
         ~(/\ MapHas(debounceContext.calls, fr.func)
           /\ debounceContext.calls[fr.func].timeout = fr.timer)
    /\ fr.by = "deduplicateTimeout" =>
         fr.call \notin Elements(Registered(deduplicationContext.calls, fr.func))

\* every registered debounce entry and deduplication group has its timer pending
NoStaleEntry ==
  \A f \in Funcs :
    /\ MapHas(debounceContext.calls, f) =>
         \E t \in Pending("debounce", f) : t.id = debounceContext.calls[f].timeout
    /\ \A g \in Elements(Registered(deduplicationContext.calls, f)) :
         \E t \in Pending("deduplicate", f) : t.id = heap[g].timeout /\ t.call = g

DeleteBeforeInvoke ==
  \* the callback has deleted the entry when the target function starts to run
  /\ last'.op = "debounceTimeout" =>
       /\ stack' # <<>>
       /\ ~MapHas(debounceContext'.calls, last'.func)
  /\ last'.op = "deduplicateTimeout" =>
       /\ stack' # <<>>
       /\ \A g \in Elements(Registered(deduplicationContext'.calls, last'.func)) :
            ~IsDeepEqual(heap'[g].args, last'.invArgs)
  \* a call made by the running target function for itself starts a fresh entry
  /\ (stack # <<>> /\ last'.op = "debounce") =>
       /\ debounceContext'.calls[last'.func].timeout = last'.timer
       /\ \A t \in { u \in timers' : u.strategy = "debounce" /\ u.func = last'.func } :
            t.id = last'.timer
       /\ last.op = "debounceTimeout" => dbRun'[last'.func].n = 1
  \* ... a fresh group: not the one that fired, and a new one with count 1 when
  \* it is the first call with the fired arguments
  /\ (stack # <<>> /\ last'.op = "deduplicate") =>
       \E t \in timers' :
         /\ t.id = last'.timer /\ t.call # Top.call
         /\ t.call \in Elements(Registered(deduplicationContext'.calls, last'.func))
         /\ t.call = last'.timer => heap'[t.call].count = 1
         /\ (last.op = "deduplicateTimeout" /\ IsDeepEqual(last'.args, last.invArgs))
              => t.call = last'.timer
  \* a target function that throws without having called back leaves no entry
  /\ (last'.op = "throw" /\ last.op = "debounceTimeout") =>
       ~MapHas(debounceContext'.calls, last'.func)
  /\ (last'.op = "throw" /\ last.op = "deduplicateTimeout") =>
       Registered(deduplicationContext'.calls, last'.func) = <<>>

\* C12: Delete before invoke.  When a debounce or deduplicate timer fires, the
\* entry / group it belongs to is removed before fn is invoked, so while fn runs
\* (also when fn throws, and when fn calls the same strategy for itself) the fired
\* entry is absent from the registry; a re-entrant debounce(fn) / deduplicate(fn, a)
\* call starts a fresh entry / group and a throwing fn leaves no stale entry.
C12_DeleteBeforeInvoke ==
  []FiredEntryAbsent /\ []NoStaleEntry /\ [][DeleteBeforeInvoke]_vars

\* the target function invoked by a deduplication timer has called deduplicate for
\* itself with the fired arguments, and then thrown: a fresh group with count 1 is
\* registered, with its timer pending
C12_Witness ==
  /\ last.op = "throw" /\ uses = "deduplicate"
  /\ \E g \in Elements(Registered(deduplicationContext.calls, last.func)) :
       /\ heap[g].count = 1 /\ g > last.timer
       /\ \E t \in timers : t.call = g

(* ------------------------------- C13 ---------------------------------- *)
\* the debounce, throttle and deduplication registries are empty and no timer is
\* pending
Quiet ==
  /\ debounceContext.calls = EmptyMap
  /\ throttleContext.calls = {}
  /\ deduplicationContext.calls = EmptyMap
  /\ timers = {}

\* a pending debounce call for f (a pending deduplicate call for f with content c)
\* is delivered: a timer callback invokes f (with arguments of content c)
PendingIsDelivered ==
  \A f \in Funcs :
    /\ (Pending("debounce", f) # {})
         ~> (last.op = "debounceTimeout" /\ last.func = f /\ last.invoked)
    /\ \A c \in Contents :
         (PendingFor(f, c) # {})
           ~> (/\ last.op = "deduplicateTimeout" /\ last.func = f /\ last.invoked
               /\ last.invArgs.content = c)

\* C13: Quiescence.  The debounce, throttle and deduplication registries are empty
\* before the first call, and once calls stop then (timers firing fairly) every
\* pending timer fires, every pending debounce / deduplicate call is delivered to
\* its callable, and the three registries become empty again and stay empty.
C13_Quiescence == Quiet /\ PendingIsDelivered /\ <>[]Quiet

\* all the calls of the run were made, a timer has just fired, and everything is
\* empty again
C13_Witness ==
  /\ nextId > MaxCalls
  /\ last.op \in {"debounceTimeout", "throttleTimeout", "deduplicateTimeout"}
  /\ Quiet

(* ------------------------------- C14 ---------------------------------- *)
\* when every throttle call so far used the constructor's interval, an invocation
\* of f by throttle comes no earlier than that interval after the previous one
ThrottleSpaced ==
  (/\ last'.op = "throttle" /\ last'.invoked
   /\ "throttle" \notin ctor'.overridden
   /\ thRun[last'.func].at # Undefined)
    => now >= thRun[last'.func].at + ctor.throttle

\* C14: Throttle rate.  With a single throttle interval I used for all calls, any
\* two invocations of the same callable fn made through throttle are at least I
\* time units apart, for any arrival pattern of throttle(fn, ...) calls.
C14_ThrottleRate == [][ThrottleSpaced]_vars

(* ------------------------------- C15 ---------------------------------- *)
\* f is inside a cooldown window: an admitted invocation of f by throttle is still
\* running, or the cooldown timer armed by an admission is pending
InWindow(f) ==
  \/ \E i \in 1..Len(stack) : stack[i].by = "throttle" /\ stack[i].func = f
  \/ Pending("throttle", f) # {}

NoInvocationInWindow ==
  (last'.op = "throttle" /\ InWindow(last'.func)) => ~last'.invoked

OneCooldownTimer ==
  \A f \in Funcs : Cardinality(Pending("throttle", f)) <= 1

\* C15: Throttle under re-entrancy.  Between the admission of a throttle(fn, ...)
\* call and the firing of the cooldown timer armed by that admission, no other
\* invocation of fn happens through throttle, also not for throttle(fn, ...) calls
\* made from inside fn's own admitted invocation; and at most one cooldown timer
\* per callable is pending at any time.
C15_ThrottleReentrancy == []OneCooldownTimer /\ [][NoInvocationInWindow]_vars

(* ------------------------------- C16 ---------------------------------- *)
\* f is in the throttle set exactly while its one cooldown timer, the one armed by
\* the last admitted call, is pending
CooldownIsTimer ==
  \A f \in Funcs :
    /\ f \in throttleContext.calls <=> Pending("throttle", f) # {}
    /\ \A t \in Pending("throttle", f) : t.id = thRun[f].timer

ThrottleWindowFixed ==
  \* an admitted call arms the timer, due after the call's effective interval
  /\ (last'.op = "throttle" /\ last'.invoked) =>
       \E t \in timers' \ timers :
         /\ t.id = last'.timer /\ t.func = last'.func /\ t.strategy = "throttle"
         /\ t.due = now + Expected(last'.config, ctor.throttle)
  \* a suppressed call, whatever its override, leaves the cooldown as it is
  /\ (last'.op = "throttle" /\ ~last'.invoked) =>
       /\ timers' = timers
       /\ throttleContext' = throttleContext
  \* the cooldown ends when that timer fires, at the instant it was due, and not
  \* before
  /\ \A f \in Funcs :
       /\ \A t \in Pending("throttle", f) :
            t \in timers' \/ (last'.op = "throttleTimeout" /\ last'.timer = t.id)
       /\ (f \in throttleContext.calls /\ f \notin throttleContext'.calls) =>
            /\ last'.op = "throttleTimeout" /\ last'.func = f
            /\ \E t \in timers : t.id = last'.timer /\ t.id = thRun[f].timer /\ t.due = now

DebounceEntryIffTimer ==
  \A f \in Funcs :
    /\ Cardinality(Pending("debounce", f)) <= 1
    /\ MapHas(debounceContext.calls, f) <=> Cardinality(Pending("debounce", f)) = 1
    /\ MapHas(debounceContext.calls, f) =>
         \A t \in Pending("debounce", f) : t.id = debounceContext.calls[f].timeout

\* a debounce call for f, through the plain or a configured invoker, cancels every
\* debounce timer pending for f and arms one due after its own effective interval
DebounceRearms ==
  last'.op = "debounce" =>
    /\ \A t \in Pending("debounce", last'.func) : t \notin timers'
    /\ \E t \in timers' :
         /\ { u \in timers' : u.strategy = "debounce" /\ u.func = last'.func } = {t}
         /\ t.id = last'.timer
         /\ t.due = now + Expected(last'.config, ctor.debounce)

\* C17: Debounce timer invariant.  Whenever no debounce call is executing, a
\* callable fn has a DebounceEntry if and only if exactly one debounce timer for
\* fn is pending; a debounce(fn, ...) call through any invoker (plain or
\* configured) cancels the pending timer for fn regardless of which invoker armed
\* it, so at most one debounce timer per callable is ever pending and its delay is
\* the effective interval of the most recent call.
C17_DebounceTimerInvariant == []DebounceEntryIffTimer /\ [][DebounceRearms]_vars

\* the second call of the run, a plain one, has just replaced the timer armed by
\* the first call, which was made through an invoker configured with another
\* interval
C17_Witness ==
  /\ last.op = "debounce" /\ last.config.null
  /\ nextId = 3 /\ dbRun[last.func].n = 2
  /\ "debounce" \in ctor.overridden
  /\ Cardinality(Pending("debounce", last.func)) = 1

(* ------------------------------- C18 ---------------------------------- *)
\* the sum of the counts held by the groups of the pending timers ts
RECURSIVE CountsOf(_)
CountsOf(ts) ==
  IF ts = {} THEN 0
  ELSE LET t == CHOOSE x \in ts : TRUE
       IN heap[t.call].count + CountsOf(ts \ {t})

\* The deduplicate calls for f not yet passed to f in a count are those held by
\* the groups whose timers are pending: when no deduplication timer for f is
\* pending, the counts passed to f add up to the calls made.
CallsConserved ==
  \A f \in Funcs :
    /\ ddOwed[f] = CountsOf(Pending("deduplicate", f))
    /\ Pending("deduplicate", f) = {} => ddOwed[f] = 0

CountAtLeastOne ==
  last'.op = "deduplicateTimeout" => (last'.invoked /\ last'.invCount >= 1)

\* C18: Deduplicate call conservation.  Every deduplicate(fn, ...) call is counted
\* in exactly one invocation of fn; in any quiescent state (no pending
\* deduplication timer for fn) the sum of the count arguments passed to fn over
\* all its deduplicate-driven invocations equals the number of deduplicate(fn, ...)
\* calls made so far, and every reported count is at least 1.
C18_DeduplicateConservation == []CallsConserved /\ [][CountAtLeastOne]_vars

\* all the calls of the run were made, a timer has just passed a count of two or
\* more to f, and no deduplication timer for f is pending
C18_Witness ==
  /\ last.op = "deduplicateTimeout" /\ last.invCount >= 2
  /\ nextId > MaxCalls
  /\ Pending("deduplicate", last.func) = {}
  /\ ddOwed[last.func] = 0

(* ------------------------------- C19 ---------------------------------- *)
\* a limit call has stored the incremented counter when the target function starts
\* to run, and the return or the throw of the target function leaves it stored
LimitCountsBeforeInvoke ==
  /\ last'.op = "limit" =>
       /\ LimitCounter(limitationContext'.calls, last'.func)
            = LimitCounter(limitationContext.calls, last'.func) + 1
       /\ last'.invoked <=> (stack' # stack /\ stack'[Len(stack')].func = last'.func)
  /\ last'.op \in {"return", "throw"} => limitationContext' = limitationContext

\* with one max m used by every limit call for f, f is never invoked more than m
\* times
LimitNeverExceeds ==
  \A f \in Funcs : \A m \in Maxes :
    lmHist[f].maxes = {m} => lmHist[f].invoked <= m

\* C19: Limit under re-entrancy and failure.  The counter of fn is incremented
\* before fn is invoked, so when fn (admitted through limit) calls limit(fn, ...)
\* for itself or throws, the attempt is still counted and the total number of
\* invocations of fn through limit with a fixed max m never exceeds m.
C19_LimitReentrancy ==
  /\ []LimitCounterCounts /\ []LimitNeverExceeds
  /\ [][LimitCountsBeforeInvoke]_vars

\* with max 1, f was admitted, called limit for itself, which was suppressed, and
\* then threw: both attempts are counted
C19_Witness ==
  /\ last.op = "throw"
  /\ lmHist[last.func].maxes = {1}
  /\ lmHist[last.func].attempts = 2 /\ lmHist[last.func].invoked = 1
  /\ LimitCounter(limitationContext.calls, last.func) = 2

(* ------------------------------- C20 ---------------------------------- *)
\* The deduplication timer that fires is the one its group holds, armed by the most
\* recent call merged into the group; f gets that call's own argument list (the
\* array made for that call), and the count the group holds at this moment.  When
\* calls were merged, that list is not the one stored at the group's creation.
ForwardsTriggeringArgs ==
  last'.op = "deduplicateTimeout" =>
    \E t \in timers :
      /\ t.id = last'.timer /\ heap[t.call].timeout = t.id
      /\ last'.invArgs.ref = t.id
      /\ IsDeepEqual(last'.invArgs, heap[t.call].args)
      /\ last'.invCount = heap[t.call].count
      /\ last'.invCount >= 2 => last'.invArgs.ref # heap[t.call].args.ref

\* C20: Deduplicate forwarded arguments.  When a group's timer fires, the argument
\* list passed to fn after the count is the concrete argument list of the most
\* recent call merged into the group (the call that armed the firing timer), not
\* the argument list stored when the group was created, while the count is the
\* group's count at fire time.
C20_DeduplicateForwardedArgs == [][ForwardsTriggeringArgs]_vars

\* a group of two merged calls has just fired: f got the second call's list
C20_Witness ==
  /\ last.op = "deduplicateTimeout" /\ last.invCount = 2
  /\ last.invArgs.ref = last.timer /\ last.timer >= 2

(* ------------------------------- C21 ---------------------------------- *)
\* A debounce / deduplicate call invokes nothing: it leaves the timer it armed
\* pending, also when the delay is 0, and func runs in that timer's callback, a
\* step of its own.  throttle and limit invoke func in the call, with the call's
\* arguments, and the throttle timer's callback invokes nothing.  Nothing else
\* invokes a target function.
SyncOrDeferred ==
  /\ last'.op \in {"debounce", "deduplicate"} =>
       /\ ~last'.invoked
       /\ \E t \in timers' :
            /\ t.id = last'.timer /\ t.func = last'.func /\ t.args = last'.args
            /\ t.due >= now
  /\ last'.op \in {"debounceTimeout", "deduplicateTimeout"} =>
       /\ last'.invoked
       /\ \E t \in timers \ timers' :
            t.id = last'.timer /\ t.func = last'.func /\ t.args = last'.invArgs
  /\ last'.op = "throttleTimeout" => ~last'.invoked
  /\ (last'.op \in {"throttle", "limit"} /\ last'.invoked) =>
       /\ last'.invArgs = last'.args
       /\ nextId' = nextId + 1
  /\ last'.invoked =>
       last'.op \in {"debounceTimeout", "deduplicateTimeout", "throttle", "limit"}

\* C21: Synchronous versus deferred invocation.  debounce and deduplicate never
\* invoke fn inside the call itself, for any interval including the default 0 (fn
\* runs only from a timer callback, so several calls in one synchronous run are
\* still coalesced); throttle and limit invoke fn only synchronously inside an
\* admitted call and never from a timer callback.
C21_SyncOrDeferred == [][SyncOrDeferred]_vars

\* with the default interval 0 and plain calls only, two debounce or deduplicate
\* calls made at the same instant have just been delivered as one invocation
C21_Witness ==
  /\ last.op \in {"debounceTimeout", "deduplicateTimeout"} /\ last.invoked
  /\ last.run >= 2 /\ now = 0
  /\ ctor.debounce = 0 /\ ctor.deduplication = 0 /\ ctor.overridden = {}

====
